---- MODULE Spec2Model ----
(***************************************************************************)
(* A model of statik's schema-to-store compiler and content loader         *)
(* (statik/database.py, statik/project.py): StatikDatabase.__init__ runs   *)
(* find_backrefs, create_db (db_model_factory per model, create_all) and   *)
(* load_all_model_data; StatikProject.generate then serves queries.        *)
(***************************************************************************)
EXTENDS Integers, Sequences, FiniteSets, TLC

VARIABLES
    models,           \* self.models: model name -> sequence of declared fields
    pc,               \* position of the build inside generate()/__init__
    backrefs_done,    \* models whose find_additional_rels has run
    additional_rels,  \* model name -> set of derived relationship entries
    compiled,         \* model classes present in globals() / self.tables
    memo,             \* association tables remembered in globals()
    metadata,         \* Base.metadata: tables in order of construction
    relationships,    \* relationship() bindings made by db_model_factory
    engine_tables,    \* tables that create_all has created in the engine
    passed,           \* tables of sorted_tables the loader has iterated past
    cur,              \* the table whose data directory is being loaded, and the mode
    seen_entries,     \* seen_entries of the running load_model_data_* call
    nloaded,          \* entries enumerated so far in the current directory
    rows,             \* model name -> rows added to the session
    links,            \* association-table link rows
    last,             \* the raw entry handed to the loader last, in this directory
    error,            \* the exception that aborted the build, if any
    nqueries,         \* queries served so far
    decl,             \* a field declaration of a model file: name and type expression
    built             \* what construct_field and db_model_factory made of decl

vars == <<models, pc, backrefs_done, additional_rels, compiled, memo, metadata,
          relationships, engine_tables, passed, cur, seen_entries, nloaded,
          rows, links, last, error, nqueries, decl, built>>

----------------------------------------------------------------------------
(* Bounds of the model *)

\* entries enumerated per model directory (collection items or files)
MaxRecords == 2

\* queries served after the load
MaxQueries == 1

\* The model names projects use, in sorted (alphabetical) order.
ModelNames == <<"Author", "Post", "Tag">>

\* Primary-key values (file base names, pk entries, listed keys).
PKs == {"a", "b"}

NameIndex(n) == CHOOSE i \in 1..Len(ModelNames) : ModelNames[i] = n

----------------------------------------------------------------------------
(* Fields (statik/fields.py) *)

NoBackref == ""

StatikStringField(name) ==
    [name |-> name, kind |-> "Prim", to |-> "String", bp |-> NoBackref]

StatikForeignKeyField(name, foreign_model, back_populates) ==
    [name |-> name, kind |-> "FK", to |-> foreign_model, bp |-> back_populates]

StatikManyToManyField(name, foreign_model, back_populates) ==
    [name |-> name, kind |-> "M2M", to |-> foreign_model, bp |-> back_populates]

\* The projects (model sets) the build is run on: model name -> fields.

\* scalar fields only
ScalarsOnly ==
    ("Author" :> <<StatikStringField("name")>>) @@ ("Post" :> <<StatikStringField("title")>>)

\* Post.author: Author -> posts
PostAuthor ==
    ("Author" :> <<>>) @@
    ("Post" :> <<StatikForeignKeyField("author", "Author", "posts")>>)

\* a chain against the name order: Author.fav: Post, Post.tag: Tag
ForeignKeyChain ==
    ("Author" :> <<StatikForeignKeyField("fav", "Post", NoBackref)>>) @@
    ("Post" :> <<StatikForeignKeyField("tag", "Tag", NoBackref)>>) @@
    ("Tag" :> <<>>)

\* a foreign-key cycle Author <-> Post, and Tag.owner: Author
ForeignKeyCycle ==
    ("Author" :> <<StatikForeignKeyField("fav", "Post", NoBackref)>>) @@
    ("Post" :> <<StatikForeignKeyField("author", "Author", NoBackref)>>) @@
    ("Tag" :> <<StatikForeignKeyField("owner", "Author", NoBackref)>>)

\* a self-reference Post.parent: Post, and Post.author: Author
SelfReference ==
    ("Author" :> <<>>) @@
    ("Post" :> <<StatikForeignKeyField("parent", "Post", NoBackref),
                 StatikForeignKeyField("author", "Author", NoBackref)>>)

\* Post.tags: Tag[] -> posts, the reverse field Tag.posts derived
TagsDerived ==
    ("Post" :> <<StatikManyToManyField("tags", "Tag", "posts")>>) @@
    ("Tag" :> <<>>)

\* Post.tags: Tag[] -> posts and Tag.posts: Post[] -> tags, both declared
TagsReciprocal ==
    ("Post" :> <<StatikManyToManyField("tags", "Tag", "posts")>>) @@
    ("Tag" :> <<StatikManyToManyField("posts", "Post", "tags")>>)

\* Tag.posts: Post[] -> tags, declared on the later name only
PostsOfTag ==
    ("Post" :> <<>>) @@
    ("Tag" :> <<StatikManyToManyField("posts", "Post", "tags")>>)

\* Post.tags: Tag[] (no back-populates) and Post.pinned: Tag[] -> pinned_by
TwoManyToMany ==
    ("Post" :> <<StatikManyToManyField("tags", "Tag", NoBackref),
                 StatikManyToManyField("pinned", "Tag", "pinned_by")>>) @@
    ("Tag" :> <<>>)

\* Post.author: Author and Post.reviewers: Author[]
ForeignKeyAndManyToMany ==
    ("Author" :> <<>>) @@
    ("Post" :> <<StatikForeignKeyField("author", "Author", NoBackref),
                 StatikManyToManyField("reviewers", "Author", NoBackref)>>)

Schemas ==
    {ScalarsOnly, PostAuthor, ForeignKeyChain, ForeignKeyCycle, SelfReference,
     TagsDerived, TagsReciprocal, PostsOfTag, TwoManyToMany,
     ForeignKeyAndManyToMany}

\* The models of the project.
Models == DOMAIN models

FieldIdx(m) == 1..Len(models[m])

Fields(m) == {models[m][i] : i \in FieldIdx(m)}

IsRelation(f) == f.kind \in {"FK", "M2M"}

----------------------------------------------------------------------------
(* Errors (statik/errors.py) *)

NoError == [kind |-> "none", model |-> "", name |-> ""]

InvalidFieldTypeError(model, field_name) ==
    [kind |-> "InvalidFieldTypeError", model |-> model, name |-> field_name]

KeyError(model, field_name) ==
    [kind |-> "KeyError", model |-> model, name |-> field_name]

DuplicateModelInstanceError(pk, model) ==
    [kind |-> "DuplicateModelInstanceError", model |-> model, name |-> pk]

InvalidModelCollectionDataError(model) ==
    [kind |-> "InvalidModelCollectionDataError", model |-> model, name |-> ""]

----------------------------------------------------------------------------
(* Type expressions of the model files, construct_field (statik/fields.py) *)

\* The text of a type expression is a sequence whose elements are names (a
\* run of name characters, taken whole) and the single characters "[", "]",
\* "-", ">" and " ".

\* back_populates = None
None == <<>>

\* The text s has the text sep at position i.
HasAt(s, sep, i) ==
    /\ i + Len(sep) - 1 <= Len(s)
    /\ SubSeq(s, i, i + Len(sep) - 1) = sep

\* str.find: the first position of sep in s, 0 when there is none.
find(s, sep) ==
    LET at == {i \in 1..Len(s) : HasAt(s, sep, i)}
    IN  IF at = {} THEN 0 ELSE CHOOSE i \in at : \A j \in at : i <= j

\* str.split(sep)
RECURSIVE split(_, _)
split(s, sep) ==
    LET i == find(s, sep)
    IN  IF i = 0 THEN <<s>>
        ELSE <<SubSeq(s, 1, i - 1)>> \o split(SubSeq(s, i + Len(sep), Len(s)), sep)

\* str.strip()
strip_nothing(s) == s

strip(s) ==
    LET keep == {i \in 1..Len(s) : s[i] # " "}
    IN  IF keep = {} THEN <<>>
        ELSE SubSeq(s, CHOOSE i \in keep : \A j \in keep : i <= j,
                       CHOOSE i \in keep : \A j \in keep : j <= i)

\* str.endswith(suffix)
endswith(s, suffix) ==
    /\ Len(suffix) <= Len(s)
    /\ SubSeq(s, Len(s) - Len(suffix) + 1, Len(s)) = suffix

\* FIELD_TYPES: primitive type name -> field class
FIELD_TYPES ==
    ("String" :> "StatikStringField") @@ ("DateTime" :> "StatikDateTimeField") @@
    ("Integer" :> "StatikIntegerField") @@ ("Boolean" :> "StatikBooleanField") @@
    ("Content" :> "StatikContentField") @@ ("Text" :> "StatikTextField")

\* SQLALCHEMY_FIELD_MAPPER: the type names that map to a column type
SQLALCHEMY_FIELD_MAPPER ==
    {"String", "DateTime", "Integer", "Boolean", "Content", "Text"}

\* text in names: the text is one name, and that name is in the collection.
TextIn(text, names) == Len(text) = 1 /\ text[1] \in names

\* StatikModelField.__init__: name, field_type, and the keyword parameters
\* (of which construct_field passes back_populates).
StatikModelField(cls, name, field_type, back_populates) ==
    [cls |-> cls, name |-> name, field_type |-> field_type,
     back_populates |-> back_populates]

NoField == [made |-> <<>>, column |-> ""]

\* InvalidFieldTypeError("Invalid field type: %s" % _field_type) and
\* InvalidFieldTypeError("Unsupported database field type: %s" % ..): the
\* message holds the type and nothing else.
InvalidFieldType(message, field_type) ==
    [kind |-> "InvalidFieldTypeError", model |-> "", name |-> "",
     message |-> message, type |-> field_type]

construct_field(name, field_type, all_models) ==
    LET field_type_parts == split(field_type, <<"-", ">">>)
        base_type == strip(split(strip(field_type_parts[1]), <<"[", "]">>)[1])
        back_populates == IF Len(field_type_parts) > 1
                          THEN strip(field_type_parts[2]) ELSE None
    IN  IF ~TextIn(base_type, DOMAIN FIELD_TYPES) /\ ~TextIn(base_type, all_models)
        THEN [err |-> InvalidFieldType("Invalid field type", base_type),
              made |-> <<>>]
        ELSE IF TextIn(base_type, DOMAIN FIELD_TYPES)
        THEN [err |-> NoError,
              made |-> StatikModelField(FIELD_TYPES[base_type[1]], name,
                                        base_type, back_populates)]
        ELSE IF endswith(strip(field_type_parts[1]), <<"[", "]">>)
        THEN [err |-> NoError,
              made |-> StatikModelField("StatikManyToManyField", name,
                                        base_type, back_populates)]
        ELSE [err |-> NoError,
              made |-> StatikModelField("StatikForeignKeyField", name,
                                        base_type, back_populates)]

\* db_model_factory, the loop over the standard fields: what one field
\* becomes in model_fields.
model_field(fld, all_models) ==
    IF TextIn(fld.field_type, SQLALCHEMY_FIELD_MAPPER)
    THEN [err |-> NoError, column |-> "Column"]
    ELSE IF TextIn(fld.field_type, all_models)
    THEN [err |-> NoError,
          column |-> CASE fld.cls = "StatikForeignKeyField" -> "ForeignKey"
                       [] fld.cls = "StatikManyToManyField" -> "secondary"
                       [] OTHER -> "nothing"]
    ELSE [err |-> InvalidFieldType("Unsupported database field type",
                                   fld.field_type),
          column |-> ""]

\* The declarations of the model files: the base type, whether [] follows
\* it, the name after -> (NoBackref: no -> part), and whether blanks are
\* written around the parts.
BaseTypes == DOMAIN FIELD_TYPES \cup {"Author", "Post", "Tag", "Widget"}

TypeParts == [base : BaseTypes, many : BOOLEAN, bp : {NoBackref, "posts"},
              blanks : BOOLEAN]

\* The text of the type expression <Base>[]? (-> <name>)?
TypeExpression(parts) ==
    LET blank == IF parts.blanks THEN <<" ">> ELSE <<>>
    IN  <<parts.base>>
        \o (IF parts.many THEN <<"[", "]">> ELSE <<>>)
        \o blank
        \o (IF parts.bp # NoBackref
            THEN <<"-", ">">> \o blank \o <<parts.bp>> \o blank
            ELSE <<>>)

\* The sets of model names of the projects: model_names of load_models.
ModelNameSets == {{"Author", "Post", "Tag"}, {"Post", "Text"}}

NoDecl == [model |-> "", name |-> "", parts |-> <<>>, field_type |-> <<>>,
           all_models |-> {}]

----------------------------------------------------------------------------
(* Phase 1: reverse relationships (StatikDatabase.find_backrefs) *)

\* StatikModel.find_additional_rels: the relationship entries that the other
\* models' back-populates declarations contribute to model self_name.
find_additional_rels(self_name) ==
    { [name |-> f.bp, to_model |-> x, back_populates |-> f.name,
       secondary |-> IF f.kind = "M2M" THEN <<x, self_name>> ELSE <<>>] :
        <<x, f>> \in { <<y, g>> \in (Models \ {self_name}) \X
                                    UNION {Fields(z) : z \in Models} :
                          /\ g \in Fields(y)
                          /\ IsRelation(g)
                          /\ g.to = self_name
                          /\ g.bp # NoBackref } }

\* The position __init__ reaches once find_backrefs has handled the models
\* in done: create_db is called only after the loop over all models.
AfterBackrefsEarly(done) == "create_db"

AfterBackrefs(done) == IF done = Models THEN "create_db" ELSE "find_backrefs"

----------------------------------------------------------------------------
(* Phase 2: table definitions (create_db, db_model_factory) *)

\* utils.calculate_association_table_name: the two names in sorted order.
calculate_association_table_name(model1_name, model2_name) ==
    IF NameIndex(model1_name) <= NameIndex(model2_name)
    THEN <<model1_name, model2_name>>
    ELSE <<model2_name, model1_name>>

\* st = [memo, log, ret]: globals(), Base.metadata and the table returned.
get_or_create_always(st, model1_name, model2_name) ==
    LET n == calculate_association_table_name(model1_name, model2_name)
    IN  [memo |-> st.memo \cup {n}, log |-> Append(st.log, n), ret |-> n]

get_or_create_association_table(st, model1_name, model2_name) ==
    LET n == calculate_association_table_name(model1_name, model2_name)
    IN  IF n \in st.memo
        THEN [st EXCEPT !.ret = n]
        ELSE [memo |-> st.memo \cup {n}, log |-> Append(st.log, n), ret |-> n]

\* The additional relationships of a model in the order the loop visits them.
RECURSIVE SetToSeq(_)
SetToSeq(S) ==
    IF S = {} THEN <<>>
    ELSE LET x == CHOOSE y \in S : TRUE IN <<x>> \o SetToSeq(S \ {x})

\* db_model_factory, first loop: relationships for model.additional_rels.
RECURSIVE AdditionalRelLoop(_, _, _)
AdditionalRelLoop(m, rels, st) ==
    IF rels = <<>> THEN st
    ELSE LET rel == Head(rels)
             got == IF rel.secondary # <<>>
                    THEN get_or_create_association_table(
                             [memo |-> st.memo, log |-> st.log, ret |-> <<>>],
                             rel.secondary[1], rel.secondary[2])
                    ELSE [memo |-> st.memo, log |-> st.log, ret |-> <<>>]
             made == [model |-> m, field |-> rel.name, to |-> rel.to_model,
                      secondary |-> got.ret, back_populates |-> rel.back_populates]
         IN  AdditionalRelLoop(m, Tail(rels),
                 [memo |-> got.memo, log |-> got.log,
                  rels |-> {r \in st.rels : r.field # rel.name} \cup {made}])

\* db_model_factory, second loop: the declared fields.
RECURSIVE FieldLoop(_, _, _)
FieldLoop(m, i, st) ==
    IF i > Len(models[m]) THEN st
    ELSE LET field == models[m][i]
             got == IF field.kind = "M2M"
                    THEN get_or_create_association_table(
                             [memo |-> st.memo, log |-> st.log, ret |-> <<>>],
                             m, field.to)
                    ELSE [memo |-> st.memo, log |-> st.log, ret |-> <<>>]
             made == [model |-> m, field |-> field.name, to |-> field.to,
                      secondary |-> got.ret, back_populates |-> field.bp]
         IN  FieldLoop(m, i + 1,
                 [memo |-> got.memo, log |-> got.log,
                  rels |-> IF IsRelation(field)
                           THEN {r \in st.rels : r.field # field.name} \cup {made}
                           ELSE st.rels])

\* db_model_factory: the model's relationships, the association tables it
\* made, and at the end the model's own table (type(model.name, (Base,), ..)).
db_model_factory(m, memo0, log0) ==
    LET a == AdditionalRelLoop(m, SetToSeq(additional_rels[m]),
                               [memo |-> memo0, log |-> log0, rels |-> {}])
        b == FieldLoop(m, 1, a)
    IN  [memo |-> b.memo, log |-> Append(b.log, <<m>>), rels |-> b.rels]

\* Table names that are in a sequence of constructed tables.
TableSet(log) == {log[i] : i \in 1..Len(log)}

----------------------------------------------------------------------------
(* Base.metadata.sorted_tables *)

\* Model a has a foreign-key column referencing model b's pk.
FKEdge(a, b) ==
    /\ a # b
    /\ \E f \in Fields(a) : f.kind = "FK" /\ f.to = b

RECURSIVE FKReach(_, _, _)
FKReach(a, b, n) ==
    /\ n > 0
    /\ \/ FKEdge(a, b)
       \/ \E c \in Models : FKEdge(a, c) /\ FKReach(c, b, n - 1)

OnFKCycle(m) == FKReach(m, m, Cardinality(Models))

\* <<p, c>>: table p is sorted before table c. The foreign keys of tables
\* on a dependency cycle are left out of the sort; self-references never
\* count.
TableDependencies(tables) ==
    {<<<<b>>, <<a>>>> : <<a, b>> \in {e \in Models \X Models :
                                       FKEdge(e[1], e[2]) /\ ~OnFKCycle(e[1])}}
    \cup {<<<<t[i]>>, t>> : <<t, i>> \in {e \in tables \X {1, 2} : Len(e[1]) = 2}}

\* The loader iterates sorted_tables: a table comes only after every table
\* it depends on; which of the tables that may come next does come next is
\* left open (any order that respects the dependencies).
any_table_next(t, tables, done) == TRUE

sorted_tables_next(t, tables, done) ==
    \A d \in TableDependencies(tables) :
        (d[2] = t /\ d[1] \in tables) => d[1] \in done

----------------------------------------------------------------------------
(* Raw record values, as the content files supply them *)

Absent == [t |-> "absent", v |-> {}]

Scalar(p) == [t |-> "scalar", v |-> {p}]

List(S) == [t |-> "list", v |-> S]

AllValues == {Absent} \cup {Scalar(p) : p \in PKs} \cup {List(S) : S \in SUBSET PKs}

\* The lists of keys that records give for a many-to-many field.
KeyLists == {{}, {"a"}, {"a", "b"}}

\* What a record may hold for a field: a scalar for a primitive field, a key
\* or nothing for a foreign key, a list of keys, a scalar or nothing for a
\* many-to-many field.
FieldValues(f) ==
    CASE f.kind = "Prim" -> {Scalar("a")}
      [] f.kind = "FK" -> {Absent, Scalar("a")}
      [] OTHER -> {Absent, Scalar("a")} \cup {List(S) : S \in KeyLists}

EntryVals(m) ==
    {v \in [FieldIdx(m) -> AllValues] : \A i \in FieldIdx(m) : v[i] \in FieldValues(models[m][i])}

NoCur == [table |-> <<>>, model |-> "", mode |-> ""]

NoEntry == [name |-> "", explicit |-> Absent, vals |-> <<>>]

----------------------------------------------------------------------------
(* StatikDatabaseInstance.__init__ *)

\* field_values['pk'] = self.name, after the record's own attributes
\* (explicit is the record's own pk attribute, if any) were copied.
InstancePkExplicitFirst(name, explicit) ==
    IF explicit.t = "scalar" THEN CHOOSE p \in explicit.v : TRUE ELSE name

InstancePk(name, explicit) == name

\* session.query(other_model).filter(other_model.pk.in_(keys)).all()
query_in_unfiltered(other_model, keys, rws) == keys

query_in(other_model, keys, rws) == {r.pk : r \in rws[other_model]} \cap keys

\* isinstance(value, list)
IsListAlways(value) == TRUE

IsList(value) == value.t = "list"

\* The many-to-many fields, in field order, at which the loop of __init__
\* raises: a missing value (KeyError) or a value that is not a list.
RaisingFields(m, vals) ==
    {i \in FieldIdx(m) : models[m][i].kind = "M2M" /\
                         (vals[i].t = "absent" \/ ~IsList(vals[i]))}

FirstOf(S) == CHOOSE i \in S : \A j \in S : i <= j

StatikDatabaseInstance(m, name, explicit, vals, rws) ==
    LET bad == RaisingFields(m, vals)
        first == FirstOf(bad)
        err == IF bad = {} THEN NoError
               ELSE IF vals[first].t = "absent"
                    THEN KeyError(m, models[m][first].name)
                    ELSE InvalidFieldTypeError(m, models[m][first].name)
        resolved == [i \in FieldIdx(m) |->
                        IF models[m][i].kind = "M2M"
                        THEN List(query_in(models[m][i].to, vals[i].v, rws))
                        ELSE vals[i]]
    IN  [err |-> err, pk |-> InstancePk(name, explicit), vals |-> resolved]

\* The association table that relationship model.field goes through.
SecondaryOf(m, field_name) ==
    (CHOOSE r \in relationships : r.model = m /\ r.field = field_name).secondary

\* The link rows written with the row of a resolved entry.
LinksOf(m, entry) ==
    {[tbl |-> SecondaryOf(m, models[m][i].name),
      ends |-> {<<m, entry.pk>>, <<models[m][i].to, k>>}] :
        <<i, k>> \in {e \in FieldIdx(m) \X PKs :
                        /\ models[m][e[1]].kind = "M2M"
                        /\ e[2] \in entry.vals[e[1]].v}}

\* if entry.field_values['pk'] in seen_entries
IsDuplicateNever(pk, seen) == FALSE

IsDuplicate(pk, seen) == pk \in seen

\* Where the build stands after an exception left StatikDatabase.__init__.
AfterRaiseContinue(err) == "load"

AfterRaise(err) == "failed"

----------------------------------------------------------------------------------------------------------------------------------------------------
(* The state after construction of the project *)

Init ==
    /\ models \in Schemas
    /\ pc = "find_backrefs"
    /\ backrefs_done = {}
    /\ additional_rels = [m \in Models |-> {}]
    /\ compiled = {}
    /\ memo = {}
    /\ metadata = <<>>
    /\ relationships = {}
    /\ engine_tables = {}
    /\ passed = {}
    /\ cur = NoCur
    /\ seen_entries = {}
    /\ nloaded = 0
    /\ rows = [m \in Models |-> {}]
    /\ links = {}
    /\ last = NoEntry
    /\ error = NoError
    /\ nqueries = 0
    /\ decl = NoDecl
    /\ built = NoField

schemaVars == <<backrefs_done, additional_rels, compiled, memo, metadata,
                relationships, engine_tables>>

loadVars == <<passed, cur, seen_entries, nloaded, last>>

storeVars == <<rows, links>>

fieldVars == <<decl, built>>

----------------------------------------------------------------------------
(* StatikDatabase.__init__: find_backrefs, create_db *)

\* One iteration of the loop of find_backrefs (dict order: any model next).
find_backrefs(m) ==
    /\ pc = "find_backrefs"
    /\ m \notin backrefs_done
    /\ additional_rels' = [additional_rels EXCEPT ![m] = find_additional_rels(m)]
    /\ backrefs_done' = backrefs_done \cup {m}
    /\ pc' = AfterBackrefs(backrefs_done')
    /\ UNCHANGED <<models, fieldVars, compiled, memo, metadata, relationships, engine_tables,
                   loadVars, storeVars, error, nqueries>>

\* One element of the list built in create_db: create_model_table(model).
create_model_table(m) ==
    /\ pc = "create_db"
    /\ m \notin compiled
    /\ LET made == db_model_factory(m, memo, metadata)
       IN  /\ memo' = made.memo
           /\ metadata' = made.log
           /\ relationships' = relationships \cup made.rels
    /\ compiled' = compiled \cup {m}
    /\ pc' = IF compiled' = Models THEN "create_all" ELSE "create_db"
    /\ UNCHANGED <<models, fieldVars, backrefs_done, additional_rels, engine_tables,
                   loadVars, storeVars, error, nqueries>>

\* Base.metadata.create_all(engine); create_db then calls
\* load_all_model_data.
create_all ==
    /\ pc = "create_all"
    /\ engine_tables' = TableSet(metadata)
    /\ pc' = "load"
    /\ UNCHANGED <<models, fieldVars, backrefs_done, additional_rels, compiled, memo, metadata,
                   relationships, loadVars, storeVars, error, nqueries>>

----------------------------------------------------------------------------
(* load_all_model_data, load_model_data *)

\* if model_name in models
EveryTableIsModel(t) == TRUE

IsModelTable(t) == Len(t) = 1 /\ t[1] \in Models

\* The table the loop of load_all_model_data visits next.
NextTable(t) ==
    /\ t \in TableSet(metadata) \ passed
    /\ sorted_tables_next(t, TableSet(metadata), passed)

\* A table that is no model (an association table), or a model without a
\* data directory.
skip_table(t) ==
    /\ pc = "load"
    /\ cur = NoCur
    /\ NextTable(t)
    /\ passed' = passed \cup {t}
    /\ UNCHANGED <<models, fieldVars, schemaVars, cur, seen_entries, nloaded, last, storeVars,
                   pc, error, nqueries>>

\* load_model_data picks the collection file _all.yml when there is one,
\* and the directory's files otherwise.
begin_model(t, mode) ==
    /\ pc = "load"
    /\ cur = NoCur
    /\ NextTable(t)
    /\ IsModelTable(t)
    /\ cur' = [table |-> t, model |-> t[1], mode |-> mode]
    /\ seen_entries' = {}
    /\ nloaded' = 0
    /\ UNCHANGED <<models, fieldVars, schemaVars, passed, last, storeVars, pc, error, nqueries>>

\* The body of the two loops: the entry is constructed, its primary key is
\* checked against seen_entries, and the row is added to the session.
LoadEntry(m, name, explicit, vals) ==
    LET entry == StatikDatabaseInstance(m, name, explicit, vals, rows)
        err == IF entry.err # NoError THEN entry.err
               ELSE IF IsDuplicate(entry.pk, seen_entries)
                    THEN DuplicateModelInstanceError(entry.pk, m)
                    ELSE NoError
    IN  /\ nloaded' = nloaded + 1
        /\ last' = [name |-> name, explicit |-> explicit, vals |-> vals]
        /\ IF err # NoError
           THEN /\ error' = err
                /\ pc' = AfterRaise(err)
                /\ UNCHANGED <<seen_entries, rows, links>>
           ELSE /\ seen_entries' = seen_entries \cup {entry.pk}
                /\ rows' = [rows EXCEPT ![m] = @ \cup {[pk |-> entry.pk,
                                                       vals |-> entry.vals]}]
                /\ links' = links \cup LinksOf(m, entry)
                /\ UNCHANGED <<pc, error>>
        /\ UNCHANGED <<models, fieldVars, schemaVars, passed, cur, nqueries>>

\* load_model_data_collection: _all.yml is no list, or an item is no dict
\* or has no pk.
load_collection_invalid ==
    /\ pc = "load"
    /\ cur.mode = "collection"
    /\ nloaded < MaxRecords
    /\ error' = InvalidModelCollectionDataError(cur.model)
    /\ pc' = AfterRaise(error')
    /\ UNCHANGED <<models, fieldVars, schemaVars, loadVars, storeVars, nqueries>>

\* load_model_data_collection: one item of the list, name=item['pk'].
load_collection_item(pk, vals) ==
    /\ pc = "load"
    /\ cur.mode = "collection"
    /\ nloaded < MaxRecords
    /\ LoadEntry(cur.model, pk, Scalar(pk), vals)

\* The content files of a directory: list_files(path, ['yml', 'yaml', 'md']).
\* Two files of one directory differ in base name or in extension.
Extensions == {"md", "yml"}

EntryFiles == [base : PKs, ext : Extensions]

\* ContentLoadable: without a name argument the entry is named after its
\* file, the base name without the extension.
ContentLoadable_name(entry_file) == entry_file.base

\* load_model_data_from_files: one file; the entry is named after the file,
\* whose attributes may hold a pk of their own (explicit).  The files are
\* not remembered: a base name that comes again stands for the file with
\* that base name and another extension.
load_file_entry(entry_file, explicit, vals) ==
    /\ pc = "load"
    /\ cur.mode = "files"
    /\ nloaded < MaxRecords
    /\ LoadEntry(cur.model, ContentLoadable_name(entry_file), explicit, vals)

\* The pk attribute a file's own front matter may hold.
ExplicitPks == {Absent, Scalar("b")}

load_model_data_collection ==
    /\ cur # NoCur
    /\ \E pk \in PKs : \E vals \in EntryVals(cur.model) :
          load_collection_item(pk, vals)

load_model_data_from_files ==
    /\ cur # NoCur
    /\ \E entry_file \in EntryFiles : \E explicit \in ExplicitPks :
          \E vals \in EntryVals(cur.model) :
             load_file_entry(entry_file, explicit, vals)

\* The loop over the entries ended; load_model_data commits the session
\* (the rows added are already visible to the session's queries before).
end_model ==
    /\ pc = "load"
    /\ cur # NoCur
    /\ passed' = passed \cup {cur.table}
    /\ cur' = NoCur
    /\ seen_entries' = {}
    /\ nloaded' = 0
    /\ last' = NoEntry
    /\ UNCHANGED <<models, fieldVars, schemaVars, storeVars, pc, error, nqueries>>

\* sorted_tables is exhausted: __init__ returns, generate() goes on.
finish_load ==
    /\ pc = "load"
    /\ cur = NoCur
    /\ passed = TableSet(metadata)
    /\ pc' = "done"
    /\ UNCHANGED <<models, fieldVars, schemaVars, loadVars, storeVars, error, nqueries>>

----------------------------------------------------------------------------
(* StatikDatabase.query, called from load_project_dynamic_context and from
   the views once the database exists *)

QueryKinds == {"select", "delete"}

\* exec('result = ' + query) with globals(): the session and the model
\* classes are in scope, and the text is run whatever it does.  "select" is
\* session.query(M).all(), "delete" is session.query(M).delete().
exec_query(kind, m, rws) ==
    IF kind = "delete" THEN [rws EXCEPT ![m] = {}] ELSE rws

query(kind, m) ==
    /\ pc = "done"
    /\ nqueries < MaxQueries
    /\ nqueries' = nqueries + 1
    /\ rows' = exec_query(kind, m, rows)
    /\ UNCHANGED <<models, fieldVars, schemaVars, loadVars, links, pc, error>>

----------------------------------------------------------------------------

Next ==
    \/ \E m \in Models : find_backrefs(m)
    \/ \E m \in Models : create_model_table(m)
    \/ create_all
    \/ \E t \in TableSet(metadata) : skip_table(t)
    \/ \E t \in TableSet(metadata) : \E mode \in {"collection", "files"} :
          begin_model(t, mode)
    \/ load_collection_invalid
    \/ load_model_data_collection
    \/ load_model_data_from_files
    \/ end_model
    \/ finish_load
    \/ \E kind \in QueryKinds : \E m \in Models : query(kind, m)

Spec == Init /\ [][Next]_vars

----------------------------------------------------------------------------
(* Several builds in one process *)

\* A further StatikDatabase(data_path, models) for the same project in the
\* same process, after the build before it returned or raised: __init__
\* makes a new engine, a new Base with an empty metadata and a new session;
\* load_models has made new models.  The module's globals(), and with them
\* the association tables remembered there, stay as they are.
StatikDatabase_again ==
    /\ pc \in {"done", "failed"}
    /\ pc' = "find_backrefs"
    /\ backrefs_done' = {}
    /\ additional_rels' = [m \in Models |-> {}]
    /\ compiled' = {}
    /\ metadata' = <<>>
    /\ relationships' = {}
    /\ engine_tables' = {}
    /\ passed' = {}
    /\ cur' = NoCur
    /\ seen_entries' = {}
    /\ nloaded' = 0
    /\ rows' = [m \in Models |-> {}]
    /\ links' = {}
    /\ last' = NoEntry
    /\ error' = NoError
    /\ nqueries' = 0
    /\ UNCHANGED <<models, fieldVars, memo>>

\* A relationship of this build goes through a table that is not in this
\* build's metadata, and so not in its engine.
StaleSecondary ==
    \E r \in relationships : r.secondary # <<>> /\ r.secondary \notin engine_tables

SQLAlchemyError == [kind |-> "SQLAlchemyError", model |-> "", name |-> ""]

\* With such a relationship SQLAlchemy fails while the directory is loaded
\* (when the mappers are configured, or when a link row is flushed to the
\* table the engine lacks); at which entry it does is left open.
sqlalchemy_error ==
    /\ pc = "load"
    /\ cur # NoCur
    /\ StaleSecondary
    /\ error' = SQLAlchemyError
    /\ pc' = AfterRaise(error')
    /\ UNCHANGED <<models, fieldVars, schemaVars, loadVars, storeVars, nqueries>>

NextProcess ==
    \/ Next
    \/ StatikDatabase_again
    \/ sqlalchemy_error

SpecProcess == Init /\ [][NextProcess]_vars

----------------------------------------------------------------------------
(* StatikProject.load_models and the compilation of one declared field *)

\* The state before load_models reads the declaration decl of a model file.
InitFields ==
    /\ \E model_names \in ModelNameSets : \E parts \in TypeParts :
          decl = [model |-> "Post", name |-> "tags", parts |-> parts,
                  field_type |-> TypeExpression(parts),
                  all_models |-> model_names]
    /\ built = NoField
    /\ pc = "load_models"
    /\ models = <<>>
    /\ backrefs_done = {}
    /\ additional_rels = <<>>
    /\ compiled = {}
    /\ memo = {}
    /\ metadata = <<>>
    /\ relationships = {}
    /\ engine_tables = {}
    /\ passed = {}
    /\ cur = NoCur
    /\ seen_entries = {}
    /\ nloaded = 0
    /\ rows = <<>>
    /\ links = {}
    /\ last = NoEntry
    /\ error = NoError
    /\ nqueries = 0

\* load_models: StatikModel(..., model_names=model_names) hands the
\* declaration to construct_field; an exception leaves generate().
load_models ==
    /\ pc = "load_models"
    /\ LET got == construct_field(decl.name, decl.field_type, decl.all_models)
       IN  /\ built' = [built EXCEPT !.made = got.made]
           /\ error' = got.err
           /\ pc' = IF got.err # NoError THEN AfterRaise(got.err) ELSE "load_db_data"
    /\ UNCHANGED <<models, schemaVars, loadVars, storeVars, nqueries, decl>>

\* load_db_data: db_model_factory(Base, model, self.models) reaches the
\* field in its loop over model.field_names.
create_field ==
    /\ pc = "load_db_data"
    /\ LET got == model_field(built.made, decl.all_models)
       IN  /\ built' = [built EXCEPT !.column = got.column]
           /\ error' = got.err
           /\ pc' = IF got.err # NoError THEN AfterRaise(got.err) ELSE "compiled"
    /\ UNCHANGED <<models, schemaVars, loadVars, storeVars, nqueries, decl>>

NextFields ==
    \/ load_models
    \/ create_field

SpecFields == InitFields /\ [][NextFields]_vars

----------------------------------------------------------------------------------------------------------------------------------------------------
(* Vocabulary of the properties *)

\* The step just taken handed an entry of the current directory to the
\* loader (collection mode or per-file mode); last' is that entry as the
\* content gave it, cur.model its model.
EntryHandled == nloaded' = nloaded + 1

\* Every many-to-many value of the record is a list.
AllListsGiven(m, vals) ==
    \A i \in FieldIdx(m) : models[m][i].kind = "M2M" => vals[i].t = "list"

PksOf(rws, m) == {r.pk : r \in rws[m]}

\* The names an association table joins.
PairOf(t) == {t[i] : i \in DOMAIN t}

\* How often Base.metadata was given a table for the pair of names S.
TablesFor(S) == {i \in DOMAIN metadata : Len(metadata[i]) = 2 /\ PairOf(metadata[i]) = S}

RelationshipsAt(m, field_name) ==
    {r \in relationships : r.model = m /\ r.field = field_name}

----------------------------------------------------------------------------
(* C1 *)

NoTwoRowsSharePk ==
    \A m \in Models : \A r1, r2 \in rows[m] : r1.pk = r2.pk => r1 = r2

\* C1 as stated: an entry whose primary key equals the key of an earlier
\* entry of the same model makes the load fail with
\* DuplicateModelInstanceError naming that key and the model, and no two
\* rows of a model share a pk.
C1_DuplicateAlwaysReported ==
    /\ []NoTwoRowsSharePk
    /\ [][(EntryHandled /\ last'.name \in seen_entries)
          => /\ pc' = "failed"
             /\ error' = DuplicateModelInstanceError(last'.name, cur.model)]_vars

\* C1, amended: an entry whose primary key equals the key of an earlier
\* entry of the same model makes the load fail; the error is
\* DuplicateModelInstanceError naming that key and the model when every
\* many-to-many value of the entry is a list, and the error of resolving the
\* entry otherwise, which is raised before the key is checked.  No two rows
\* of a model share a pk.
C1_DuplicateKeyFails ==
    /\ []NoTwoRowsSharePk
    /\ [][(EntryHandled /\ last'.name \in seen_entries)
          => /\ pc' = "failed"
             /\ rows' = rows
             /\ IF AllListsGiven(cur.model, last'.vals)
                THEN error' = DuplicateModelInstanceError(last'.name, cur.model)
                ELSE error'.kind \in {"InvalidFieldTypeError", "KeyError"}]_vars

\* A second entry with the key of an earlier one was reported.
C1_Witness ==
    /\ pc = "failed"
    /\ error.kind = "DuplicateModelInstanceError"
    /\ error.name = last.name
    /\ error.name \in PksOf(rows, error.model)
    /\ cur.model = error.model

----------------------------------------------------------------------------
(* C2 *)

\* The loading of model m has begun.
LoadBegun(m) == cur.model = m \/ <<m>> \in passed \/ rows[m] # {}

\* C2: when model M has a ForeignKey field to another model N and neither
\* lies on a foreign-key cycle, the loader is through with N before it
\* begins M; and the table whose directory is loaded is always a model's
\* table, never an association table.
C2_ForeignKeyTargetsLoadedFirst ==
    /\ \A M, N \in Models :
          (M # N /\ FKEdge(M, N) /\ ~OnFKCycle(M) /\ ~OnFKCycle(N))
          => (LoadBegun(M) => (<<N>> \in passed /\ cur.model # N))
    /\ cur # NoCur => (Len(cur.table) = 1 /\ cur.table[1] \in Models)

\* Author.fav: Post, Post.tag: Tag: rows of all three models were loaded;
\* the chain runs against the order of the names.
C2_Witness ==
    /\ models = ForeignKeyChain
    /\ rows["Author"] # {}
    /\ rows["Post"] # {}
    /\ rows["Tag"] # {}
    /\ pc = "load"

----------------------------------------------------------------------------
(* C3 *)

\* C3 as stated: after a full load, every ForeignKey column value that a
\* loaded record supplied is the pk of a loaded row of the target model.
C3_ForeignKeysResolve ==
    (pc = "done" /\ nqueries = 0) =>
        \A m \in Models : \A i \in FieldIdx(m) : \A r \in rows[m] :
            (models[m][i].kind = "FK" /\ r.vals[i].t = "scalar")
            => r.vals[i].v \subseteq PksOf(rows, models[m][i].to)

----------------------------------------------------------------------------
(* C4 *)

\* The row of model m with primary key pk.
RowOf(rws, m, pk) == CHOOSE r \in rws[m] : r.pk = pk

Linked(lks, m, pk, other, k) == \E l \in lks : l.ends = {<<m, pk>>, <<other, k>>}

\* C4: when an entry whose many-to-many values are all lists and whose key
\* is new is handed to the loader, the load goes on, the entry's row is
\* inserted, and of the keys a many-to-many field lists exactly those that
\* are the pk of an already loaded row of the target model become links;
\* the others are dropped.
C4_ListedKeysLinkedOrDropped ==
    [][(/\ EntryHandled
        /\ AllListsGiven(cur.model, last'.vals)
        /\ last'.name \notin seen_entries)
       => /\ error' = NoError
          /\ pc' = "load"
          /\ last'.name \in PksOf(rows', cur.model)
          /\ \A i \in FieldIdx(cur.model) :
                models[cur.model][i].kind = "M2M" =>
                  LET other == models[cur.model][i].to
                      found == last'.vals[i].v \cap PksOf(rows, other)
                  IN  /\ RowOf(rows', cur.model, last'.name).vals[i] = List(found)
                      /\ \A k \in last'.vals[i].v :
                            Linked(links', cur.model, last'.name, other, k)
                            <=> k \in found]_vars

\* A Post listed the tags a and b while only Tag a was loaded: a is linked,
\* b is dropped, the Post's row is there.
C4_Witness ==
    /\ models = TagsDerived
    /\ cur.model = "Post"
    /\ error = NoError
    /\ last.name = "a"
    /\ last.vals[1] = List({"a", "b"})
    /\ PksOf(rows, "Tag") = {"a"}
    /\ RowOf(rows, "Post", "a").vals[1] = List({"a"})
    /\ Linked(links, "Post", "a", "Tag", "a")
    /\ ~Linked(links, "Post", "a", "Tag", "b")

----------------------------------------------------------------------------
(* C5 *)

\* C5 as stated: an entry whose value for a ManyToMany field is there and
\* is not a list fails with InvalidFieldTypeError naming the model and that
\* field, and the load fails.
C5_NonListAlwaysNamed ==
    [][EntryHandled =>
         \A i \in FieldIdx(cur.model) :
            (models[cur.model][i].kind = "M2M" /\ last'.vals[i].t = "scalar")
            => /\ pc' = "failed"
               /\ error' = InvalidFieldTypeError(cur.model,
                                                 models[cur.model][i].name)]_vars

\* C5, amended: an entry whose value for a ManyToMany field is there and is
\* not a list, while every ManyToMany field before it in field order holds a
\* list, fails with InvalidFieldTypeError naming the model and that field,
\* and the load fails.
C5_FirstNonListNamed ==
    [][EntryHandled =>
         \A i \in FieldIdx(cur.model) :
            (/\ models[cur.model][i].kind = "M2M"
             /\ last'.vals[i].t = "scalar"
             /\ \A j \in FieldIdx(cur.model) :
                   (j < i /\ models[cur.model][j].kind = "M2M")
                   => last'.vals[j].t = "list")
            => /\ pc' = "failed"
               /\ rows' = rows
               /\ error' = InvalidFieldTypeError(cur.model,
                                                 models[cur.model][i].name)]_vars

\* Post.pinned, the second ManyToMany field of Post, was reported.
C5_Witness ==
    /\ models = TwoManyToMany
    /\ pc = "failed"
    /\ error = InvalidFieldTypeError("Post", "pinned")
    /\ last.vals[1].t = "list"
    /\ last.vals[2].t = "scalar"

----------------------------------------------------------------------------
(* C6 *)

\* C6: for a ManyToMany field of A that targets B and names a back-populates
\* field, Base.metadata is never given more than one association table for
\* the pair {A, B}; once every model is compiled it holds exactly one, and
\* the relationship of A's field and the reverse relationship on B both go
\* through it.
C6_OneSharedAssociationTable ==
    \A A \in Models : \A i \in FieldIdx(A) :
        LET f == models[A][i]
            B == f.to
        IN  (f.kind = "M2M" /\ f.bp # NoBackref) =>
              /\ Cardinality(TablesFor({A, B})) <= 1
              /\ compiled = Models =>
                   /\ Cardinality(TablesFor({A, B})) = 1
                   /\ \A r \in RelationshipsAt(A, f.name) \cup RelationshipsAt(B, f.bp) :
                         /\ r.secondary \in memo
                         /\ TablesFor({A, B}) = {j \in DOMAIN metadata :
                                                   metadata[j] = r.secondary}
                   /\ RelationshipsAt(A, f.name) # {}
                   /\ RelationshipsAt(B, f.bp) # {}

\* Both directions declared, Tag compiled before Post: all tables are made.
C6_Witness ==
    /\ models = TagsReciprocal
    /\ pc = "create_all"
    /\ \E i, j \in DOMAIN metadata : i < j /\ metadata[i] = <<"Tag">> /\ metadata[j] = <<"Post">>

----------------------------------------------------------------------------
(* C7 *)

AllTablesPassed == passed = TableSet(metadata)

\* C7: nothing is compiled before find_backrefs has handled every model;
\* nothing is loaded before every model is compiled and create_all has
\* made the tables; no query is served before the loader is through with
\* every table, and none after a failed load.
C7_PhasesInOrder ==
    /\ (compiled # {} \/ metadata # <<>> \/ relationships # {})
       => /\ backrefs_done = Models
          /\ \A m \in Models : additional_rels[m] = find_additional_rels(m)
    /\ (passed # {} \/ cur # NoCur \/ \E m \in Models : rows[m] # {})
       => /\ compiled = Models
          /\ \A m \in Models : <<m>> \in engine_tables
          /\ engine_tables = TableSet(metadata)
    /\ nqueries > 0
       => /\ AllTablesPassed
          /\ cur = NoCur
          /\ error = NoError
    /\ pc = "done" => (AllTablesPassed /\ cur = NoCur /\ error = NoError)

\* A query was served on a store with rows and a derived relationship.
C7_Witness ==
    /\ nqueries > 0
    /\ \E m \in Models : rows[m] # {}
    /\ \E m \in Models : additional_rels[m] # {}

----------------------------------------------------------------------------
(* C8 *)

\* C8 as stated: once loading has completed, no step changes the rows or
\* the link rows, whatever is queried.
C8_QueriesLeaveStoreAlone ==
    [][pc = "done" => (rows' = rows /\ links' = links)]_vars

----------------------------------------------------------------------------
(* C9 *)

\* C9: when the resolution of an entry fails (a ManyToMany value is missing
\* or is not a list), no row and no link row is written, the build has
\* failed with that error, and a failed build takes no further step.
C9_FailedResolutionWritesNothing ==
    [][/\ pc # "failed"
       /\ error = NoError
       /\ (EntryHandled /\ ~AllListsGiven(cur.model, last'.vals))
          => /\ rows' = rows
             /\ links' = links
             /\ pc' = "failed"
             /\ error'.kind \in {"InvalidFieldTypeError", "KeyError"}
             /\ error'.model = cur.model
             /\ passed' = passed]_vars

\* The second Post failed to resolve after the first was added; Tag, which
\* comes later, was never begun.
C9_Witness ==
    /\ models = TagsDerived
    /\ pc = "failed"
    /\ error.kind = "InvalidFieldTypeError"
    /\ last.vals[1].t = "scalar"
    /\ cur.model = "Post"
    /\ Cardinality(rows["Post"]) = 1
    /\ <<"Tag">> \notin passed

----------------------------------------------------------------------------
(* C10 *)

\* C10 as stated: in per-file mode the row's primary key, which is also the
\* key remembered for the duplicate check, is the pk of the file's own
\* attributes when there is one, and the file's base name otherwise.
C10_ExplicitPkWins ==
    [][(EntryHandled /\ cur.mode = "files" /\ error' = NoError)
       => LET key == IF last'.explicit = Absent THEN last'.name
                     ELSE CHOOSE p \in last'.explicit.v : TRUE
          IN  /\ PksOf(rows', cur.model) = PksOf(rows, cur.model) \cup {key}
              /\ seen_entries' = seen_entries \cup {key}]_vars

\* C10, amended: in per-file mode the row's primary key, which is also the
\* key remembered for the duplicate check, is always the file's base name;
\* a pk among the file's own attributes is overwritten.
C10_BaseNameIsPk ==
    [][(EntryHandled /\ cur.mode = "files" /\ error' = NoError)
       => /\ PksOf(rows', cur.model) = PksOf(rows, cur.model) \cup {last'.name}
          /\ last'.name \notin PksOf(rows, cur.model)
          /\ seen_entries' = seen_entries \cup {last'.name}]_vars

\* The file a with a pk attribute b was loaded as row a; there is no row b.
C10_Witness ==
    /\ cur.mode = "files"
    /\ last.name = "a"
    /\ last.explicit = Scalar("b")
    /\ PksOf(rows, cur.model) = {"a"}
    /\ error = NoError

----------------------------------------------------------------------------
(* C11 *)

\* The base type of the declaration is no primitive and no declared model.
UnknownBase ==
    decl.parts.base \notin (DOMAIN FIELD_TYPES \cup decl.all_models)

\* C11 as stated: once the declaration of a field whose base type is neither
\* a recognized primitive nor the name of a declared model has been read,
\* schema construction has failed with InvalidFieldTypeError, and the error
\* identifies the offending model and the offending field.
C11_UnknownTypeIdentified ==
    (decl # NoDecl /\ pc # "load_models" /\ UnknownBase) =>
        /\ pc = "failed"
        /\ error.kind = "InvalidFieldTypeError"
        /\ error.model = decl.model
        /\ error.name = decl.name

----------------------------------------------------------------------------
(* C12 *)

\* C12: construct_field classifies every type expression
\* <Base>[]? (-> <name>)?, with or without blanks around the parts: a
\* primitive base gives the field class of that primitive; a base that is no
\* primitive and is a declared model name gives a ManyToMany field when []
\* follows the base and a ForeignKey field otherwise; the field keeps its
\* name and the base as its type, and its back-populates name is the name
\* after -> if there is one and None otherwise.
C12_TypeExpressionsClassified ==
    (decl # NoDecl /\ pc # "load_models" /\ ~UnknownBase) =>
        LET parts == decl.parts
        IN  /\ error = NoError
            /\ built.made.name = decl.name
            /\ built.made.field_type = <<parts.base>>
            /\ built.made.back_populates =
                  (IF parts.bp = NoBackref THEN None ELSE <<parts.bp>>)
            /\ built.made.cls =
                  (IF parts.base \in DOMAIN FIELD_TYPES THEN FIELD_TYPES[parts.base]
                   ELSE IF parts.many THEN "StatikManyToManyField"
                   ELSE "StatikForeignKeyField")

\* "Tag[] -> posts " was read as a ManyToMany field to Tag that
\* back-populates posts, and compiled to a relationship through a secondary
\* table.
C12_Witness ==
    /\ pc = "compiled"
    /\ decl.field_type = <<"Tag", "[", "]", " ", "-", ">", " ", "posts", " ">>
    /\ built.made.cls = "StatikManyToManyField"
    /\ built.made.field_type = <<"Tag">>
    /\ built.made.back_populates = <<"posts">>
    /\ built.column = "secondary"

----------------------------------------------------------------------------
(* C13 *)

\* C13 as stated: whenever a record of a model A with a ManyToMany field
\* that targets a different model B is resolved, all of B's records have
\* already been loaded: the loader is through with B's table.  (The claim's
\* conclusion, that after a full load only keys with no B record at all are
\* dropped, rests on this: a listed key is looked up among the rows of B
\* loaded so far.)
C13_ManyToManyTargetsLoadedFirst ==
    [][EntryHandled =>
         \A i \in FieldIdx(cur.model) :
            (models[cur.model][i].kind = "M2M" /\ models[cur.model][i].to # cur.model)
            => <<models[cur.model][i].to>> \in passed]_vars

----------------------------------------------------------------------------
(* C14 *)

\* C14 as stated: in every build run in a process, a second build of the
\* same models included, once create_all has made the build's tables they
\* contain the association table of every many-to-many relation among the
\* build's models.
C14_EveryBuildHasItsAssociationTables ==
    pc \in {"load", "done", "failed"} =>
        \A A \in Models : \A i \in FieldIdx(A) :
            models[A][i].kind = "M2M"
            => calculate_association_table_name(A, models[A][i].to) \in engine_tables

====
